---- MODULE Spec2Model ----
(***************************************************************************)
(* Model of dayonerunlog.                                                  *)
(*                                                                         *)
(* src/wrappers.py (ActivityWrapper, ServiceWrapper, SmashrunWrapper,      *)
(* StravaWrapper): two service wrappers share one configuration.  Each     *)
(* wrapper downloads its activities from its client, and                   *)
(* merge_service(self, service) links the activities of `service` into     *)
(* the matching activities of `self`; cleanup() unlinks the temporary      *)
(* files of a wrapper's activities.                                        *)
(*                                                                         *)
(* Python objects are modelled as entries of a heap: an activity object    *)
(* is named by a reference <<service, generation, id>>, the generation     *)
(* being the number of the download() call that constructed it, so that a  *)
(* second download of a service builds new objects while the old ones may  *)
(* still be referenced from linked_activities of another service.          *)
(*                                                                         *)
(* src/dayonerunlog.py: main (download, matching, journal entries, state   *)
(* file, cleanup), sr_get_split_info and time_string.                      *)
(*                                                                         *)
(* The module holds one specification per part of the program; the         *)
(* variables of the other parts keep their initial value in it.            *)
(*                                                                         *)
(* Times are seconds (an absolute instant), distances are metres.          *)
(***************************************************************************)
EXTENDS Integers, Sequences, FiniteSets, TLC

VARIABLES
    config,       \* ServiceWrapper.config: thresholds and the manual matching map
    args,         \* the arguments the caller passes to download()
    world,        \* what each service's client returns for the requested window
    primary,      \* ServiceWrapper.primary of each wrapper
    activities,   \* ServiceWrapper.activities: ordered dict, as the sequence of its values
    heap,         \* the ActivityWrapper objects, by reference
    gen,          \* number of download() calls made on each wrapper
    log,          \* the logging records of the last merge_service call on the
                  \* collections as they are now
    last_merge,   \* that call's receiver and argument
    receivers,    \* the wrappers merge_service has been called on
    cleaned,      \* the wrappers cleanup has been called on
    raised,       \* the exception that ended the program, or "none"
    files,        \* the temporary files on disk (made by download_url and not unlinked)
    \* dayonerunlog.py, main
    cli,          \* the parsed command line (args)
    remote,       \* what the services and the journal sink answer in this invocation
    pc,           \* where main is
    idx,          \* the index of `run` in the loop over sr_runs
    sr_runs,      \* main's sr_runs, as decorated so far
    runs,         \* main's runs
    journal,      \* the invocations of the journal sink (dayone2), in order
    state_file,   \* the time after LastUpdateStop in the state file
    \* dayonerunlog.py, sr_get_split_info and time_string
    details,      \* the argument of sr_get_split_info
    splits,       \* its result
    pace,         \* the argument of time_string
    text          \* its result

wrapper_vars == <<config, args, world, primary, activities, heap, gen, log, last_merge,
                  receivers, cleaned>>

main_vars == <<cli, remote, pc, idx, sr_runs, runs, journal, state_file>>

split_vars == <<details, splits>>

time_vars == <<pace, text>>

vars == <<wrapper_vars, raised, files, main_vars, split_vars, time_vars>>

-----------------------------------------------------------------------------
(* Bounds of the model *)

\* longest manual matching map (config['matched_activities'])
MaxManual == 2
\* merge_service is not called again once a linked_activities list is this long
MaxLinked == 2
\* number of download calls on one wrapper in one run of the program
MaxDownloads == 1
\* every pace up to this one is formatted by time_string
MaxPace == 125
\* longest series of samples, and longest list of splits a service sends
MaxSamples == 3

(* Program constants *)

START_TIME_THRESHOLD_IN_SECS == 90
DISTANCE_THRESHOLD_IN_METERS == 150

-----------------------------------------------------------------------------
(* Values *)

\* Python's None, where an activity id or a polyline is expected (ids are positive)
None == 0

Services == {"smashrun", "strava"}

ActivityIds == {1, 2}

Other(s) == IF s = "smashrun" THEN "strava" ELSE "smashrun"

Abs(x) == IF x < 0 THEN -x ELSE x

Range(s) == {s[i] : i \in 1..Len(s)}

\* The raw records the two services hold.  smashrun 1 and strava 1 start 60 s
\* and lie 80 m apart, smashrun 1 and strava 2 start 120 s apart; strava 1 is
\* 60 s from both smashrun records.
Details(svc, id) ==
    IF svc = "smashrun"
    THEN IF id = 1
         THEN [id |-> 1, start |-> 0, distance |-> 10000, activityType |-> "running",
               polyline |-> 1, photos |-> 0]
         ELSE [id |-> 2, start |-> 120, distance |-> 10000, activityType |-> "running",
               polyline |-> None, photos |-> 0]
    ELSE IF id = 1
         THEN [id |-> 1, start |-> 60, distance |-> 10080, activityType |-> "Run",
               polyline |-> 1, photos |-> 1]
         ELSE [id |-> 2, start |-> 120, distance |-> 10080, activityType |-> "Run",
               polyline |-> None, photos |-> 0]

\* The answers of client.get_activities: the first record alone, or both, the
\* newer one first or (Strava) in either order.  The collection of a wrapper
\* is empty until its download.
Responses(svc) ==
    IF svc = "smashrun"
    THEN {<<Details(svc, 1)>>, <<Details(svc, 2), Details(svc, 1)>>}
    ELSE {<<Details(svc, 1)>>, <<Details(svc, 1), Details(svc, 2)>>,
          <<Details(svc, 2), Details(svc, 1)>>}

\* An entry of the manual matching map: a dict from service id to activity id
\* (a service without a key in the entry is outside the DOMAIN)
Entries ==
    {[s \in {"smashrun", "strava"} |-> IF s = "smashrun" THEN a ELSE 1] : a \in ActivityIds}
    \cup {[s \in {"strava"} |-> 1]}

ManualMaps == UNION {[1..n -> Entries] : n \in 0..MaxManual}

Thresholds ==
    {<<START_TIME_THRESHOLD_IN_SECS, DISTANCE_THRESHOLD_IN_METERS>>,
     <<START_TIME_THRESHOLD_IN_SECS, 80>>,
     <<60, DISTANCE_THRESHOLD_IN_METERS>>}

\* The caller's arguments to download(): stop, the three switches and the
\* allowed activity types (the defaults of ServiceWrapper.download)
Arguments ==
    {[stop |-> 120, badges |-> TRUE, photos |-> TRUE, routes |-> TRUE,
      activity_types |-> {"run"}]}

\* The google_apikey the wrappers are constructed with
ApiKeys == {1}

\* The urls that answer with a status other than 200
Outages == {{}}

\* ServiceWrapper.primary of the two wrappers: the caller flags one of them
Designations == {[s \in Services |-> s = p] : p \in Services}

-----------------------------------------------------------------------------
(* ActivityWrapper *)

Ref(svc, g, id) == <<svc, g, id>>

\* ActivityWrapper.__init__ (with the fields the subclasses read from details)
NewActivity(svc, d) ==
    [service |-> svc, id |-> d.id, start |-> d.start, distance |-> d.distance,
     activityType |-> d.activityType, polyline |-> d.polyline, linked_activities |-> <<>>,
     _badges |-> <<>>, _photos |-> <<>>, _tags |-> <<svc>>]

\* The objects reachable from a set of objects through linked_activities
RECURSIVE ReachFrom(_, _)
ReachFrom(refs, h) ==
    LET next == refs \cup UNION {Range(h[x].linked_activities) : x \in refs}
    IN IF next = refs THEN refs ELSE ReachFrom(next, h)

\* The objects the recursion of all_tags(r) visits below r
Reaches(r, h) == ReachFrom(Range(h[r].linked_activities), h)

\* all_badges / all_photos / all_tags: the object's own entries paired with its
\* service, then the accumulation of each linked activity in turn.  On a cycle
\* of linked_activities the recursion does not end (RecursionError).
RecursionError == << <<"RecursionError", "RecursionError">> >>

\* Flatten with every entry paired with the service of the object read
RECURSIVE FlattenOwnService(_, _, _, _)
FlattenOwnService(r, field, h, i) ==
    LET own == [k \in 1..Len(h[r][field]) |-> <<h[r].service, h[r][field][k]>>]
    IN IF i = 0 THEN own
       ELSE LET sub == FlattenOwnService(h[r].linked_activities[i], field, h,
                                         Len(h[h[r].linked_activities[i]].linked_activities))
            IN FlattenOwnService(r, field, h, i - 1)
               \o [k \in 1..Len(sub) |-> <<h[r].service, sub[k][2]>>]

RECURSIVE Flatten(_, _, _, _)
Flatten(r, field, h, i) ==
    LET own == [k \in 1..Len(h[r][field]) |-> <<h[r].service, h[r][field][k]>>]
    IN IF i = 0 THEN own
       ELSE Flatten(r, field, h, i - 1)
            \o Flatten(h[r].linked_activities[i], field, h,
                       Len(h[h[r].linked_activities[i]].linked_activities))

\* The sequence without the repetitions of an entry
RECURSIVE Distinct(_)
Distinct(s) ==
    IF s = <<>> THEN <<>>
    ELSE LET init == Distinct(SubSeq(s, 1, Len(s) - 1))
         IN IF s[Len(s)] \in Range(init) THEN init ELSE Append(init, s[Len(s)])

\* The accumulation with every entry kept once
AccumulatedDistinct(r, field, h) ==
    IF r \in Reaches(r, h) \/ \E x \in Reaches(r, h) : x \in Reaches(x, h)
    THEN RecursionError
    ELSE Distinct(Flatten(r, field, h, Len(h[r].linked_activities)))

Accumulated(r, field, h) ==
    IF r \in Reaches(r, h) \/ \E x \in Reaches(r, h) : x \in Reaches(x, h)
    THEN RecursionError
    ELSE Flatten(r, field, h, Len(h[r].linked_activities))

all_badges(r, h) == Accumulated(r, "_badges", h)

all_photos(r, h) == Accumulated(r, "_photos", h)

all_tags(r, h) == Accumulated(r, "_tags", h)

-----------------------------------------------------------------------------
(* download *)

\* Python's None, where the name of a file is expected (a name is a non-empty tuple)
NoFile == <<>>

\* download_url: the name of a new temporary file, or None when the answer is not 200.
\* A url is <<kind, owner, n>>; the temporary file is named after it, so two
\* downloads never share a name.  The urls that do not answer 200 are given
\* as <<kind, n>>.
download_url(url) ==
    IF <<url[1], url[3]>> \in world.unreachable THEN NoFile ELSE url

\* sorted(activities, key=start): a stable insertion sort
RECURSIVE InsertByStart(_, _)
InsertByStart(sorted, d) ==
    IF sorted = <<>> THEN <<d>>
    ELSE IF sorted[Len(sorted)].start <= d.start THEN Append(sorted, d)
    ELSE Append(InsertByStart(SubSeq(sorted, 1, Len(sorted) - 1), d), sorted[Len(sorted)])

RECURSIVE SortedByStart(_)
SortedByStart(ds) ==
    IF ds = <<>> THEN <<>>
    ELSE InsertByStart(SortedByStart(SubSeq(ds, 1, Len(ds) - 1)), ds[Len(ds)])

\* result[activity.id] = activity on an OrderedDict: a known key keeps its place
RECURSIVE OrderedDictOf(_)
OrderedDictOf(ds) ==
    IF ds = <<>> THEN <<>>
    ELSE LET init == OrderedDictOf(SubSeq(ds, 1, Len(ds) - 1))
             d == ds[Len(ds)]
         IN IF \E i \in 1..Len(init) : init[i].id = d.id
            THEN [i \in 1..Len(init) |-> IF init[i].id = d.id THEN d ELSE init[i]]
            ELSE Append(init, d)

\* activity_type_map.setdefault(atype, None)
activity_type_map(atype) == IF atype = "running" THEN "run" ELSE "None"

\* SmashrunWrapper.download_activities: the records kept, in stored order
SmashrunKept(r, a) ==
    /\ ~(r.start > a.stop)
    /\ activity_type_map(r.activityType) # "None"
    /\ activity_type_map(r.activityType) \in a.activity_types

SmashrunDownloadActivities(records, a) ==
    OrderedDictOf(SortedByStart(SelectSeq(records, LAMBDA r : SmashrunKept(r, a))))

\* StravaWrapper.download_activities: every record, in the order received
StravaDownloadActivities(records, a) ==
    OrderedDictOf(records)

download_activities(svc, a) ==
    IF svc = "smashrun" THEN SmashrunDownloadActivities(world[svc], a)
    ELSE StravaDownloadActivities(world[svc], a)

\* photos_for_activity: none on Smashrun, the downloaded files on Strava
RECURSIVE StravaPhotos(_, _)
StravaPhotos(r, n) ==
    IF n = 0 THEN <<>>
    ELSE LET fname == download_url(<<"photo", r, n>>)
         IN IF fname # NoFile THEN Append(StravaPhotos(r, n - 1), fname)
            ELSE StravaPhotos(r, n - 1)

photos_for_activity(svc, r, d) ==
    IF svc = "smashrun" THEN <<>> ELSE StravaPhotos(r, d.photos)

\* badges_for_activity: both wrappers return no badges
badges_for_activity(svc, r) == <<>>

\* route_image_for_activity
route_image_for_activity(r, act) ==
    IF act.polyline # None /\ config.google_apikey # None
    THEN download_url(<<"route", r, 0>>)
    ELSE NoFile

\* image_for_badge: the downloaded file, or None
image_for_badge(r, n) == download_url(<<"badge", r, n>>)

\* for badge in activity.badges: the image of each of the n badges in turn is
\* inserted in front of the photos
RECURSIVE WithBadgeImages(_, _, _)
WithBadgeImages(photos, r, n) ==
    IF n = 0 THEN photos
    ELSE LET before == WithBadgeImages(photos, r, n - 1)
             image == image_for_badge(r, n)
         IN IF image # NoFile THEN <<image>> \o before ELSE before

\* The loop body of download with the route image put behind the photos
DecoratedRouteLast(svc, r, d, a) ==
    LET a0 == NewActivity(svc, d)
        a1 == IF a.photos THEN [a0 EXCEPT !._photos = photos_for_activity(svc, r, d)] ELSE a0
        a2 == IF a.badges
              THEN [a1 EXCEPT !._badges = badges_for_activity(svc, r),
                              !._photos = WithBadgeImages(@, r, Len(badges_for_activity(svc, r)))]
              ELSE a1
        image == route_image_for_activity(r, a2)
    IN IF a.routes /\ primary[svc] /\ image # NoFile
       THEN [a2 EXCEPT !._photos = Append(a2._photos, image)]
       ELSE a2

\* The loop body of ServiceWrapper.download for one activity
Decorated(svc, r, d, a) ==
    LET a0 == NewActivity(svc, d)
        a1 == IF a.photos THEN [a0 EXCEPT !._photos = photos_for_activity(svc, r, d)] ELSE a0
        a2 == IF a.badges
              THEN [a1 EXCEPT !._badges = badges_for_activity(svc, r),
                              !._photos = WithBadgeImages(@, r, Len(badges_for_activity(svc, r)))]
              ELSE a1
        image == route_image_for_activity(r, a2)
    IN IF a.routes /\ primary[svc] /\ image # NoFile
       THEN [a2 EXCEPT !._photos = <<image>> \o a2._photos]
       ELSE a2

-----------------------------------------------------------------------------
(* match_activity *)

\* the assert of match_activity failed
AssertionError == -1

\* self.activities[id]: the object stored under the key, or NoRef (KeyError)
NoRef == <<>>

Lookup(coll, id, h) ==
    IF \E i \in 1..Len(coll) : h[coll[i]].id = id
    THEN coll[CHOOSE i \in 1..Len(coll) : h[coll[i]].id = id]
    ELSE NoRef

\* ManualScan with the assert firing only when a second entry repeats the id
\* already found; otherwise the later entry wins
RECURSIVE ManualScanSameId(_, _, _, _)
ManualScanSameId(self, service, activity, n) ==
    IF n = 0 THEN None
    ELSE LET matched_id == ManualScanSameId(self, service, activity, n - 1)
             entry == config.matched_activities[n]
         IN IF matched_id = AssertionError THEN AssertionError
            ELSE IF service \in DOMAIN entry /\ entry[service] = activity.id
                 THEN IF self \in DOMAIN entry
                      THEN IF matched_id = entry[self] THEN AssertionError ELSE entry[self]
                      ELSE matched_id
                 ELSE matched_id

\* The loop over config['matched_activities']: matched_id after the first n entries
RECURSIVE ManualScan(_, _, _, _)
ManualScan(self, service, activity, n) ==
    IF n = 0 THEN None
    ELSE LET matched_id == ManualScan(self, service, activity, n - 1)
             entry == config.matched_activities[n]
         IN IF matched_id = AssertionError THEN AssertionError
            ELSE IF service \in DOMAIN entry /\ entry[service] = activity.id
                 THEN IF self \in DOMAIN entry
                      THEN IF matched_id # None THEN AssertionError ELSE entry[self]
                      ELSE matched_id
                 ELSE matched_id

\* Close with the tests relaxed to "at most"
CloseOrEqual(activity, candidate) ==
    /\ Abs(activity.start - candidate.start) <= config.max_start_time_delta_in_secs
    /\ Abs(activity.distance - candidate.distance) <= config.max_distance_delta_in_meters

\* The two threshold tests on one candidate
Close(activity, candidate) ==
    /\ Abs(activity.start - candidate.start) < config.max_start_time_delta_in_secs
    /\ Abs(activity.distance - candidate.distance) < config.max_distance_delta_in_meters

\* ProximityScan passing over a candidate that already links the activity
RECURSIVE ProximityScanSkipLinked(_, _, _, _)
ProximityScanSkipLinked(coll, activity, h, i) ==
    IF i > Len(coll) THEN None
    ELSE IF /\ Close(activity, h[coll[i]])
            /\ \A x \in Range(h[coll[i]].linked_activities) :
                  h[x].service # activity.service \/ h[x].id # activity.id
         THEN h[coll[i]].id
    ELSE ProximityScanSkipLinked(coll, activity, h, i + 1)

\* A candidate that has an activity linked is no longer considered
RECURSIVE ProximityScanFreeOnly(_, _, _, _)
ProximityScanFreeOnly(coll, activity, h, i) ==
    IF i > Len(coll) THEN None
    ELSE IF Close(activity, h[coll[i]]) /\ h[coll[i]].linked_activities = <<>>
         THEN h[coll[i]].id
    ELSE ProximityScanFreeOnly(coll, activity, h, i + 1)

\* The loop over self.activities.values(): the first candidate that passes, from index i
RECURSIVE ProximityScan(_, _, _, _)
ProximityScan(coll, activity, h, i) ==
    IF i > Len(coll) THEN None
    ELSE IF Close(activity, h[coll[i]]) THEN h[coll[i]].id
    ELSE ProximityScan(coll, activity, h, i + 1)

\* match_activity preferring the candidates that have nothing linked yet
match_activity_unlinked_first(self, service, activity, h) ==
    LET matched_id == ManualScan(self, service, activity, Len(config.matched_activities))
        unlinked == SelectSeq(activities[self], LAMBDA c : h[c].linked_activities = <<>>)
        free_id == ProximityScan(unlinked, activity, h, 1)
    IN IF matched_id # None THEN matched_id
       ELSE IF free_id # None THEN free_id
       ELSE ProximityScan(activities[self], activity, h, 1)

\* match_activity with the proximity scan tried first and the manual map
\* consulted only when no candidate passes
match_activity_proximity_first(self, service, activity, h) ==
    LET manual_id == ManualScan(self, service, activity, Len(config.matched_activities))
        matched_id == ProximityScan(activities[self], activity, h, 1)
    IN IF manual_id = AssertionError THEN AssertionError
       ELSE IF matched_id = None THEN manual_id
       ELSE matched_id

\* ServiceWrapper.match_activity: an id, None, or AssertionError
match_activity(self, service, activity, h) ==
    LET matched_id == ManualScan(self, service, activity, Len(config.matched_activities))
    IN IF matched_id = None
       THEN ProximityScan(activities[self], activity, h, 1)
       ELSE matched_id

-----------------------------------------------------------------------------
(* merge_service *)

\* NothingToMerge raising instead of logging
NothingToMergeRaises(st, r) ==
    [st EXCEPT !.raised = "NotFoundError"]

\* logging.warning("No %s activity found for %s:%s. Nothing to merge."): the
\* activity stays unmerged
NothingToMerge(st, r) ==
    [st EXCEPT !.log = Append(@, [level |-> "warning", activity |-> r, matched_id |-> None])]

\* Link in both directions
LinkBoth(h, target, r) ==
    [h EXCEPT ![target].linked_activities = Append(@, r),
              ![r].linked_activities = Append(@, target)]

\* self.activities[matched_id].linked_activities.append(activity)
Link(h, target, r) ==
    [h EXCEPT ![target].linked_activities = Append(@, r)]

\* logging.info("Merging %s:%s into %s:%s...") and the append to the matched
\* activity; a matched_id that is no key of self.activities is a KeyError
Merge(st, self, r, matched_id) ==
    LET logged == Append(st.log, [level |-> "info", activity |-> r, matched_id |-> matched_id])
        target == Lookup(activities[self], matched_id, st.heap)
    IN IF target = NoRef
       THEN [st EXCEPT !.log = logged, !.raised = "KeyError"]
       ELSE [st EXCEPT !.log = logged, !.heap = Link(st.heap, target, r)]

\* The state of ServiceWrapper.merge_service after the first n activities of
\* service.activities.values(): the heap, the records logged, the exception raised
RECURSIVE MergeLoop(_, _, _)
MergeLoop(self, service, n) ==
    IF n = 0 THEN [heap |-> heap, log |-> <<>>, raised |-> "none"]
    ELSE LET st == MergeLoop(self, service, n - 1)
             r == activities[service][n]
             matched_id == match_activity(self, service, st.heap[r], st.heap)
         IN IF st.raised # "none" THEN st
            ELSE IF matched_id = AssertionError
                 THEN [st EXCEPT !.raised = "AssertionError"]
            ELSE IF matched_id = None THEN NothingToMerge(st, r)
            ELSE Merge(st, self, r, matched_id)

merge_service(self, service) ==
    MergeLoop(self, service, Len(activities[service]))

\* no merge_service call yet on the collections as they are now
NoCall == [self |-> "none", service |-> "none"]

-----------------------------------------------------------------------------
(* The program *)

\* The variables of main, of sr_get_split_info and of time_string while the
\* program modelled is another part
MainIdle ==
    /\ cli = <<>>
    /\ remote = <<>>
    /\ pc = "idle"
    /\ idx = 0
    /\ sr_runs = <<>>
    /\ runs = <<>>
    /\ journal = <<>>
    /\ state_file = 0

SplitsIdle ==
    /\ details = <<>>
    /\ splits = [state |-> "pending", list |-> <<>>]

TimeIdle ==
    /\ pace = 0
    /\ text = <<>>

Init ==
    /\ config \in {[max_start_time_delta_in_secs |-> t[1],
                     max_distance_delta_in_meters |-> t[2],
                     matched_activities |-> m,
                     google_apikey |-> k] :
                        t \in Thresholds, m \in ManualMaps, k \in ApiKeys}
    /\ args \in Arguments
    /\ world \in {[smashrun |-> a, strava |-> b, unreachable |-> u] :
                     a \in Responses("smashrun"), b \in Responses("strava"), u \in Outages}
    /\ primary \in Designations
    /\ activities = [s \in Services |-> <<>>]
    /\ heap = <<>>
    /\ gen = [s \in Services |-> 0]
    /\ log = <<>>
    /\ last_merge = NoCall
    /\ receivers = {}
    /\ cleaned = {}
    /\ raised = "none"
    /\ files = {}
    /\ MainIdle
    /\ SplitsIdle
    /\ TimeIdle

\* ServiceWrapper.download(start, stop, badges, photos, routes, activity_types):
\* the collection is replaced by newly built, decorated objects.  Objects no
\* longer reachable from a collection are dropped from the heap.
Download(self) ==
    /\ raised = "none"
    /\ gen[self] < MaxDownloads
    /\ LET g == gen[self] + 1
           ds == download_activities(self, args)
           refs == [i \in 1..Len(ds) |-> Ref(self, g, ds[i].id)]
           built == [r \in DOMAIN heap \cup Range(refs) |->
                        IF r \in Range(refs)
                        THEN Decorated(self, r, ds[CHOOSE i \in 1..Len(ds) : refs[i] = r], args)
                        ELSE heap[r]]
           colls == [activities EXCEPT ![self] = refs]
           live == ReachFrom(UNION {Range(colls[s]) : s \in Services}, built)
       IN /\ activities' = colls
          /\ heap' = [r \in live |-> built[r]]
          /\ gen' = [gen EXCEPT ![self] = g]
          /\ files' = files \cup UNION {Range(built[r]._photos) : r \in Range(refs)}
    /\ log' = <<>>
    /\ last_merge' = NoCall
    /\ UNCHANGED <<config, args, world, primary, receivers, cleaned, raised>>
    /\ UNCHANGED <<main_vars, split_vars, time_vars>>

\* ServiceWrapper.merge_service(service), called on self with the other wrapper
\* as its argument (either wrapper may be the receiver)
MergeService(self, service) ==
    /\ raised = "none"
    /\ self # service
    /\ \A r \in DOMAIN heap : Len(heap[r].linked_activities) < MaxLinked
    /\ LET st == merge_service(self, service)
       IN /\ heap' = st.heap
          /\ log' = st.log
          /\ raised' = st.raised
    /\ last_merge' = [self |-> self, service |-> service]
    /\ receivers' = receivers \cup {self}
    /\ UNCHANGED <<config, args, world, primary, activities, gen, cleaned, files>>
    /\ UNCHANGED <<main_vars, split_vars, time_vars>>

\* os.unlink on each name in turn: the files left and the exception raised.
\* Unlinking a file that is not there raises OSError and ends the loop.
RECURSIVE UnlinkAll(_, _, _)
UnlinkAll(names, fs, i) ==
    IF i > Len(names) THEN [files |-> fs, raised |-> "none"]
    ELSE IF names[i] \notin fs THEN [files |-> fs, raised |-> "OSError"]
    ELSE UnlinkAll(names, fs \ {names[i]}, i + 1)

\* The photos cleanup walks through: activity.photos of each activity of the
\* collection in turn, without the service each is paired with
RECURSIVE PhotosOf(_, _, _)
PhotosOf(coll, h, n) ==
    IF n = 0 THEN <<>>
    ELSE LET photos == all_photos(coll[n], h)
         IN PhotosOf(coll, h, n - 1) \o [k \in 1..Len(photos) |-> photos[k][2]]

\* ServiceWrapper.cleanup, called on self
Cleanup(self) ==
    /\ raised = "none"
    /\ self \notin cleaned
    /\ cleaned' = cleaned \cup {self}
    /\ IF \E r \in Range(activities[self]) : all_photos(r, heap) = RecursionError
       THEN /\ raised' = "RecursionError"
            /\ files' = files
       ELSE LET st == UnlinkAll(PhotosOf(activities[self], heap, Len(activities[self])),
                                files, 1)
            IN /\ files' = st.files
               /\ raised' = st.raised
    /\ UNCHANGED <<config, args, world, primary, activities, heap, gen, log, last_merge,
                   receivers>>
    /\ UNCHANGED <<main_vars, split_vars, time_vars>>

Next ==
    \/ \E self \in Services : Download(self)
    \/ \E self \in Services, service \in Services : MergeService(self, service)

Spec == Init /\ [][Next]_vars

\* The wrappers with cleanup: downloads and merges, then cleanup on each wrapper
\* as the program ends.  The manual matching map is empty.
InitCleanup ==
    /\ Init
    /\ config.matched_activities = <<>>

NextCleanup ==
    \/ cleaned = {} /\ Next
    \/ \E self \in Services : Cleanup(self)

SpecCleanup == InitCleanup /\ [][NextCleanup]_vars

\* download alone, on services that also hold activities of other types and
\* activities at and after stop, with urls that do not answer 200.  The Strava
\* client is asked for the activities before stop and answers with those.
DownloadDetails(svc, id) ==
    IF svc = "smashrun"
    THEN IF id = 1
         THEN [id |-> 1, start |-> 0, distance |-> 10000, activityType |-> "running",
               polyline |-> 1, photos |-> 0]
         ELSE IF id = 2
         THEN [id |-> 2, start |-> 120, distance |-> 10000, activityType |-> "running",
               polyline |-> None, photos |-> 0]
         ELSE IF id = 3
         THEN [id |-> 3, start |-> 60, distance |-> 3000, activityType |-> "walking",
               polyline |-> None, photos |-> 0]
         ELSE [id |-> 4, start |-> 200, distance |-> 10000, activityType |-> "running",
               polyline |-> 1, photos |-> 0]
    ELSE IF id = 1
         THEN [id |-> 1, start |-> 60, distance |-> 10080, activityType |-> "Run",
               polyline |-> 1, photos |-> 2]
         ELSE [id |-> 2, start |-> 100, distance |-> 30000, activityType |-> "Ride",
               polyline |-> None, photos |-> 1]

DownloadResponses(svc) ==
    IF svc = "smashrun"
    THEN {<<DownloadDetails(svc, 3), DownloadDetails(svc, 1)>>,
          <<DownloadDetails(svc, 4), DownloadDetails(svc, 2), DownloadDetails(svc, 3),
            DownloadDetails(svc, 1)>>}
    ELSE {<<DownloadDetails(svc, 1)>>, <<DownloadDetails(svc, 2), DownloadDetails(svc, 1)>>}

DownloadArguments ==
    {[stop |-> 120, badges |-> TRUE, photos |-> p, routes |-> r, activity_types |-> t] :
        p \in BOOLEAN, r \in BOOLEAN, t \in {{"run"}, {"ride"}}}

DownloadOutages == SUBSET {<<"photo", 1>>, <<"route", 0>>}

InitDownload ==
    /\ config \in {[max_start_time_delta_in_secs |-> START_TIME_THRESHOLD_IN_SECS,
                     max_distance_delta_in_meters |-> DISTANCE_THRESHOLD_IN_METERS,
                     matched_activities |-> <<>>,
                     google_apikey |-> k] : k \in {None, 1}}
    /\ args \in DownloadArguments
    /\ world \in {[smashrun |-> a, strava |-> b, unreachable |-> u] :
                     a \in DownloadResponses("smashrun"), b \in DownloadResponses("strava"),
                     u \in DownloadOutages}
    /\ primary \in Designations
    /\ activities = [s \in Services |-> <<>>]
    /\ heap = <<>>
    /\ gen = [s \in Services |-> 0]
    /\ log = <<>>
    /\ last_merge = NoCall
    /\ receivers = {}
    /\ cleaned = {}
    /\ raised = "none"
    /\ files = {}
    /\ MainIdle
    /\ SplitsIdle
    /\ TimeIdle

NextDownload == \E self \in Services : Download(self)

SpecDownload == InitDownload /\ [][NextDownload]_vars

-----------------------------------------------------------------------------
(* dayonerunlog.py: time_string *)

\* The variables of the wrappers while the program modelled is another part
WrappersIdle ==
    /\ config = <<>>
    /\ args = <<>>
    /\ world = <<>>
    /\ primary = <<>>
    /\ activities = <<>>
    /\ heap = <<>>
    /\ gen = <<>>
    /\ log = <<>>
    /\ last_merge = NoCall
    /\ receivers = {}
    /\ cleaned = {}

SECS_PER_MIN == 60
SECS_PER_HOUR == 3600

\* A string is the sequence of its characters
Digits == <<"0", "1", "2", "3", "4", "5", "6", "7", "8", "9">>

\* '%d' % n, n >= 0
RECURSIVE Decimal(_)
Decimal(n) ==
    IF n < 10 THEN <<Digits[n + 1]>> ELSE Append(Decimal(n \div 10), Digits[(n % 10) + 1])

\* '%02d' % n, n >= 0: padded with zeros to two characters, longer when n >= 100
Format02d(n) == IF n < 10 THEN <<"0">> \o Decimal(n) ELSE Decimal(n)

\* time_string with the minutes field written only when minutes > 0
time_string_without_zero_minutes(p) ==
    LET hours == p \div SECS_PER_HOUR
        secs_left == p - hours * SECS_PER_HOUR
        minutes == secs_left \div SECS_PER_MIN
        secs == secs_left - minutes * SECS_PER_MIN
    IN (IF hours > 0 THEN Format02d(hours) \o <<":">> ELSE <<>>)
       \o (IF minutes > 0 THEN Format02d(minutes) \o <<":">> ELSE <<>>)
       \o Format02d(secs)

\* time_string(pace), pace a whole number of seconds, pace >= 0
time_string(p) ==
    LET hours == p \div SECS_PER_HOUR
        secs_left == p - hours * SECS_PER_HOUR
        minutes == secs_left \div SECS_PER_MIN
        secs == secs_left - minutes * SECS_PER_MIN
    IN (IF hours > 0 THEN Format02d(hours) \o <<":">> ELSE <<>>)
       \o (IF hours > 0 \/ minutes > 0 THEN Format02d(minutes) \o <<":">> ELSE <<>>)
       \o Format02d(secs)

\* every pace up to MaxPace, and paces around one hour and one hundred hours
Paces == 0..MaxPace \cup {3599, 3600, 3725, 359999, 360000}

InitTime ==
    /\ pace \in Paces
    /\ text = <<>>
    /\ raised = "none"
    /\ files = {}
    /\ WrappersIdle
    /\ MainIdle
    /\ SplitsIdle

\* the call time_string(pace)
TimeString ==
    /\ text = <<>>
    /\ text' = time_string(pace)
    /\ UNCHANGED <<pace, raised, files, wrapper_vars, main_vars, split_vars>>

NextTime == TimeString

SpecTime == InitTime /\ [][NextTime]_vars

-----------------------------------------------------------------------------
(* dayonerunlog.py: sr_get_split_info; wrappers.py: the splits properties *)

\* Lengths are whole numbers of 8 mm, the largest length that both the metre
\* and the mile (1609.344 m) are whole multiples of; times are whole seconds.
\* A pace is seconds per mile, cut to a whole number.
UNITS_PER_METER == 125
UNITS_PER_MILE == 201168

\* split_interval=1.0 * UNITS.mile
split_interval == UNITS_PER_MILE

\* indices[key]: the place of the key in recordingKeys (the last one, from 1),
\* 0 for the None of setdefault
KeyIndex(keys, key) ==
    IF \E k \in 1..Len(keys) : keys[k] = key
    THEN CHOOSE k \in 1..Len(keys) : keys[k] = key /\ \A j \in (k + 1)..Len(keys) : keys[j] # key
    ELSE 0

\* The loop over the distance channel, after its first n elements
RECURSIVE SplitLoop(_, _, _)
SplitLoop(distances, clock, n) ==
    IF n = 0
    THEN [splits |-> <<>>, last_split |-> 0, next_split |-> split_interval,
          prev_time |-> 0, prev_distance |-> 0]
    ELSE LET st == SplitLoop(distances, clock, n - 1)
             element_idx == n - 1
             distance == distances[n] * UNITS_PER_METER
             cur_time == clock[n]
         IN IF distance > st.next_split
            THEN [splits |-> Append(st.splits,
                                    [total_distance |-> st.next_split,
                                     split_distance |-> split_interval,
                                     total_time |-> cur_time,
                                     split_time |-> cur_time - st.prev_time]),
                  last_split |-> element_idx,
                  next_split |-> st.next_split + split_interval,
                  prev_time |-> cur_time,
                  prev_distance |-> st.next_split]
            ELSE st

\* The last part is added whatever the place of the last split
HasLastPartAlways(last_split, len) == TRUE

\* if (last_split + 1) < len(details['recordingValues'][indices['distance']])
HasLastPart(last_split, len) == last_split + 1 < len

\* The last part records the time since the start as its split_time
LastPartFromStart(st, distances, clock) ==
    LET last_total_distance == distances[Len(distances)] * UNITS_PER_METER
        last_total_clock == clock[Len(clock)]
    IN [total_distance |-> last_total_distance - st.prev_distance,
        split_distance |-> last_total_distance - st.prev_distance,
        total_time |-> last_total_clock - st.prev_time,
        split_time |-> last_total_clock - st.prev_time]

\* "Figure out last part of split": the record of the last sample
LastPart(st, distances, clock) ==
    LET last_total_distance == distances[Len(distances)] * UNITS_PER_METER
        last_total_clock == clock[Len(clock)]
    IN [total_distance |-> last_total_distance,
        split_distance |-> last_total_distance - st.prev_distance,
        total_time |-> last_total_clock,
        split_time |-> last_total_clock - st.prev_time]

\* time / distance in seconds per mile
Pace(time, distance) == (time * UNITS_PER_MILE) \div distance

\* The loop that sets split_pace and total_pace: the list, or ZeroDivisionError
WithPaces(list) ==
    IF \E k \in 1..Len(list) : list[k].split_distance = 0 \/ list[k].total_distance = 0
    THEN [state |-> "ZeroDivisionError", list |-> <<>>]
    ELSE [state |-> "list",
          list |-> [k \in 1..Len(list) |->
                       [total_distance |-> list[k].total_distance,
                        split_distance |-> list[k].split_distance,
                        total_time |-> list[k].total_time,
                        split_time |-> list[k].split_time,
                        split_pace |-> Pace(list[k].split_time, list[k].split_distance),
                        total_pace |-> Pace(list[k].total_time, list[k].total_distance)]]]

\* sr_get_split_info(details): None, the list of splits, or the exception raised
sr_get_split_info(d) ==
    LET distance == KeyIndex(d.recordingKeys, "distance")
        clock == KeyIndex(d.recordingKeys, "clock")
    IN IF distance = 0 \/ clock = 0 THEN [state |-> "None", list |-> <<>>]
       ELSE LET distances == d.recordingValues[distance]
                st == SplitLoop(distances, d.recordingValues[clock], Len(distances))
            IN IF HasLastPart(st.last_split, Len(distances))
               THEN IF distances = <<>>
                    THEN [state |-> "IndexError", list |-> <<>>]
                    ELSE WithPaces(Append(st.splits,
                                          LastPart(st, distances, d.recordingValues[clock])))
               ELSE WithPaces(st.splits)

\* (1.0 / (cur_speed / cur_distance)).to(UNITS.seconds), the speed in miles per
\* hour: 3600 s per hour over UNITS_PER_MILE is 25 / 1397
SecondsAt(cur_speed, cur_distance) == (cur_distance * 25) \div (cur_speed * 1397)

\* SmashrunActivity.splits after the first n splits of client.get_splits; a
\* split's distance counts half miles from the start, its speed is in miles per hour
RECURSIVE SmashrunSplitLoop(_, _)
SmashrunSplitLoop(api, n) ==
    IF n = 0
    THEN [state |-> "list", list |-> <<>>, total_time |-> 0, prev_distance |-> 0]
    ELSE LET st == SmashrunSplitLoop(api, n - 1)
             total_distance == api[n].distance * (UNITS_PER_MILE \div 2)
             cur_distance == total_distance - st.prev_distance
             cur_speed == api[n].speed
         IN IF st.state # "list" THEN st
            ELSE IF cur_distance = 0 \/ cur_speed = 0 \/ total_distance = 0
                 THEN [st EXCEPT !.state = "ZeroDivisionError", !.list = <<>>]
            ELSE LET cur_time == SecondsAt(cur_speed, cur_distance)
                     total_time == st.total_time + cur_time
                 IN [state |-> "list",
                     list |-> Append(st.list,
                                     [total_distance |-> total_distance,
                                      split_distance |-> cur_distance,
                                      total_time |-> total_time,
                                      split_time |-> cur_time,
                                      split_pace |-> Pace(cur_time, cur_distance),
                                      total_pace |-> Pace(total_time, total_distance)]),
                     total_time |-> total_time,
                     prev_distance |-> total_distance]

SmashrunActivity_splits(api) ==
    LET st == SmashrunSplitLoop(api, Len(api))
    IN [state |-> st.state, list |-> st.list]

\* StravaActivity.splits after the first n entries of details['splits_standard'];
\* an entry's distance is in metres, its moving_time in seconds
RECURSIVE StravaSplitLoop(_, _)
StravaSplitLoop(splits_standard, n) ==
    IF n = 0
    THEN [state |-> "list", list |-> <<>>, total_distance |-> 0, total_time |-> 0]
    ELSE LET st == StravaSplitLoop(splits_standard, n - 1)
             split_distance == splits_standard[n].distance * UNITS_PER_METER
             split_time == splits_standard[n].moving_time
             total_time == st.total_time + split_time
             total_distance == st.total_distance + split_distance
         IN IF st.state # "list" THEN st
            ELSE IF split_distance = 0 \/ total_distance = 0
                 THEN [st EXCEPT !.state = "ZeroDivisionError", !.list = <<>>]
            ELSE [state |-> "list",
                  list |-> Append(st.list,
                                  [total_distance |-> total_distance,
                                   split_distance |-> split_distance,
                                   total_time |-> total_time,
                                   split_time |-> split_time,
                                   split_pace |-> Pace(split_time, split_distance),
                                   total_pace |-> Pace(total_time, total_distance)]),
                  total_distance |-> total_distance,
                  total_time |-> total_time]

StravaActivity_splits(splits_standard) ==
    LET st == StravaSplitLoop(splits_standard, Len(splits_standard))
    IN [state |-> st.state, list |-> st.list]

\* The sequences over a set of numbers that never decrease, and those that
\* always increase: what a channel that counts from the start of the run holds
NonDecreasing(S, n) ==
    {s \in [1..n -> S] : \A i \in 1..n, j \in 1..n : i < j => s[i] <= s[j]}

Increasing(S, n) ==
    {s \in [1..n -> S] : \A i \in 1..n, j \in 1..n : i < j => s[i] < s[j]}

\* The samples of a recording: metres and seconds since the start
SampleDistances == {0, 1000, 1700, 3300, 5000}
SampleClocks == {0, 400, 900}

RecordingKeys ==
    {<<"clock", "distance">>, <<"distance", "clock">>, <<"clock">>, <<"distance", "heartRate">>}

\* The details of a Smashrun activity: recordingKeys and, in the same order,
\* one channel of recordingValues for each key, all of one length
Recordings ==
    UNION {{[path |-> "sr_get_split_info",
             recordingKeys |-> keys,
             recordingValues |-> [k \in 1..Len(keys) |->
                                     IF keys[k] = "distance" THEN ds
                                     ELSE IF keys[k] = "clock" THEN cs
                                     ELSE [i \in 1..n |-> 0]]] :
               keys \in RecordingKeys, ds \in NonDecreasing(SampleDistances, n),
               cs \in NonDecreasing(SampleClocks, n)} : n \in 0..MaxSamples}

\* The answers of client.get_splits: half miles from the start, miles per hour
SmashrunSplitLists ==
    UNION {{[path |-> "SmashrunActivity",
             api |-> [i \in 1..n |-> [distance |-> ds[i], speed |-> ss[i]]]] :
               ds \in Increasing({1, 2, 4, 5}, n), ss \in [1..n -> {6, 8}]} : n \in 0..MaxSamples}

\* details['splits_standard'] of a Strava activity
StravaSplitLists ==
    UNION {{[path |-> "StravaActivity",
             splits_standard |-> [i \in 1..n |-> [distance |-> ds[i], moving_time |-> ms[i]]]] :
               ds \in [1..n -> {1609, 500}], ms \in [1..n -> {480, 150}]} : n \in 0..MaxSamples}

InitSplits ==
    /\ details \in Recordings \cup SmashrunSplitLists \cup StravaSplitLists
    /\ splits = [state |-> "pending", list |-> <<>>]
    /\ raised = "none"
    /\ files = {}
    /\ WrappersIdle
    /\ MainIdle
    /\ TimeIdle

\* The value returned (None or a list), or the exception raised
Returned(result) ==
    /\ splits' = IF result.state \in {"None", "list"} THEN result
                 ELSE [state |-> "raised", list |-> <<>>]
    /\ raised' = IF result.state \in {"None", "list"} THEN "none" ELSE result.state
    /\ UNCHANGED <<details, files, wrapper_vars, main_vars, time_vars>>

\* splits = sr_get_split_info(details)
SrGetSplitInfo ==
    /\ splits.state = "pending"
    /\ details.path = "sr_get_split_info"
    /\ Returned(sr_get_split_info(details))

\* the first read of SmashrunActivity.splits
SmashrunSplits ==
    /\ splits.state = "pending"
    /\ details.path = "SmashrunActivity"
    /\ Returned(SmashrunActivity_splits(details.api))

\* a read of StravaActivity.splits
StravaSplits ==
    /\ splits.state = "pending"
    /\ details.path = "StravaActivity"
    /\ Returned(StravaActivity_splits(details.splits_standard))

NextSplits ==
    \/ SrGetSplitInfo
    \/ SmashrunSplits
    \/ StravaSplits

SpecSplits == InitSplits /\ [][NextSplits]_vars

-----------------------------------------------------------------------------
(* dayonerunlog.py: main *)

\* The recording of a run (details): both channels, or no distance channel
Recorded == [recordingKeys |-> <<"clock", "distance">>,
             recordingValues |-> << <<0, 400>>, <<0, 1000>> >>]

NoDistanceChannel == [recordingKeys |-> <<"clock">>, recordingValues |-> << <<0, 400>> >>]

\* The activities Smashrun holds: distance in kilometres, start in seconds of
\* local time (all four on the first day), and the recording
SmashrunRun(id) ==
    IF id = 1 THEN [activityId |-> 1, start |-> 0, distance |-> 10,
                    activityType |-> "running", details |-> Recorded]
    ELSE IF id = 2 THEN [activityId |-> 2, start |-> 120, distance |-> 10,
                         activityType |-> "running", details |-> Recorded]
    ELSE IF id = 3 THEN [activityId |-> 3, start |-> 60, distance |-> 3,
                         activityType |-> "walking", details |-> Recorded]
    ELSE [activityId |-> 4, start |-> 200, distance |-> 10,
          activityType |-> "running", details |-> Recorded]

\* The answers of smashrun.get_activities, newest first; in the last one the
\* recording of run 2 has no distance channel
SmashrunAnswers ==
    {<<>>,
     <<SmashrunRun(1)>>,
     <<SmashrunRun(4), SmashrunRun(2), SmashrunRun(3), SmashrunRun(1)>>,
     <<[SmashrunRun(2) EXCEPT !.details = NoDistanceChannel], SmashrunRun(1)>>}

SECS_PER_DAY == 86400

\* The answers of smashrun.get_badges, newest first: badge 1 was earned on the
\* first day, badge 2 on the second
BadgeAnswers ==
    {<<>>,
     <<[id |-> 1, dateEarned |-> 30]>>,
     <<[id |-> 2, dateEarned |-> SECS_PER_DAY + 30], [id |-> 1, dateEarned |-> 30]>>}

\* The urls that answer with a status other than 200 in this invocation
MainOutages ==
    {{}, {<<"badge_full", 1>>}, {<<"badge_full", 1>>, <<"badge", 1>>}, {<<"photo", 1>>}}

\* The activities Strava holds: run 1 is within the thresholds of both
\* Smashrun runs, run 2 of neither
StravaRun(id) ==
    IF id = 1 THEN [id |-> 1, start_date |-> 60, distance |-> 10080, polyline |-> 1, photos |-> 1]
    ELSE [id |-> 2, start_date |-> 300, distance |-> 10080, polyline |-> None, photos |-> 0]

StravaAnswers == {<<StravaRun(1)>>, <<StravaRun(2)>>}

\* The completion status of dayone2 for the entry of each Smashrun run
SinkAnswers == [{1, 2} -> {0, 1}]

\* The request of the download phase that raises (a connection error), if any
Faults == {"none", "smashrun", "strava"}

\* The parsed command line; state_file and create_state_file say whether the
\* option was given, start is the time read from the state file
CommandLines ==
    {[no_strava |-> ns, dryrun |-> d, state_file |-> sf, create_state_file |-> csf, tags |-> tg,
      no_route |-> FALSE, no_badges |-> FALSE, start |-> 0, stop |-> 120,
      google_maps_apikey |-> 1] :
        ns \in BOOLEAN, d \in BOOLEAN, sf \in BOOLEAN, csf \in BOOLEAN,
        tg \in {<<>>, <<"smashrun", "race">>}}

\* download_url of dayonerunlog.py: the name of the new temporary file, or None
log_download_url(url) ==
    IF <<url[1], url[3]>> \in remote.unreachable THEN NoFile ELSE url

Reverse(s) == [i \in 1..Len(s) |-> s[Len(s) + 1 - i]]

\* sr_get_badges: the badges with their local time of earning, reversed
sr_get_badges(api) == Reverse(api)

\* sr_get_badge_photos after the first n badges: the photos, the temporary
\* files made, the exception raised.  The temporary file is made before the
\* answer is looked at; when the full size and the normal size image both
\* fail, os.unlink is handed the file object, a TypeError.
RECURSIVE BadgePhotoLoop(_, _, _)
BadgePhotoLoop(activity_id, badges, n) ==
    IF n = 0 THEN [photos |-> <<>>, files |-> {}, raised |-> "none"]
    ELSE LET st == BadgePhotoLoop(activity_id, badges, n - 1)
             tmpfile == <<"badge", activity_id, badges[n].id>>
         IN IF st.raised # "none" THEN st
            ELSE IF \/ log_download_url(<<"badge_full", activity_id, badges[n].id>>) # NoFile
                    \/ log_download_url(<<"badge", activity_id, badges[n].id>>) # NoFile
                 THEN [photos |-> Append(st.photos, tmpfile),
                       files |-> st.files \cup {tmpfile},
                       raised |-> "none"]
            ELSE [photos |-> st.photos, files |-> st.files \cup {tmpfile},
                  raised |-> "TypeError"]

sr_get_badge_photos(activity_id, badges) ==
    BadgePhotoLoop(activity_id, badges, Len(badges))

\* min_badge_time and max_badge_time: the first and the last second of the
\* local day of the run
min_badge_time(localtime) == (localtime \div SECS_PER_DAY) * SECS_PER_DAY

max_badge_time(localtime) == min_badge_time(localtime) + SECS_PER_DAY - 1

\* A badge goes to the first run of its day only
RunBadgesOncePerDay(running, i, badges) ==
    IF \E j \in 1..(i - 1) : min_badge_time(running[j].start) = min_badge_time(running[i].start)
    THEN <<>>
    ELSE SelectSeq(badges, LAMBDA b : /\ b.dateEarned >= min_badge_time(running[i].start)
                                      /\ b.dateEarned <= max_badge_time(running[i].start))

\* activity['__badges'] of the i-th running activity
RunBadges(running, i, badges) ==
    SelectSeq(badges, LAMBDA b : /\ b.dateEarned >= min_badge_time(running[i].start)
                                 /\ b.dateEarned <= max_badge_time(running[i].start))

\* The second loop of sr_get_runs after the first n running activities: the
\* results, the temporary files made, the exception raised.  __id maps a
\* service to the id of the run on it.
RECURSIVE SrRunLoop(_, _, _)
SrRunLoop(running, badges, n) ==
    IF n = 0 THEN [results |-> <<>>, files |-> {}, raised |-> "none"]
    ELSE LET st == SrRunLoop(running, badges, n - 1)
             activity == running[n]
             split_info == sr_get_split_info(activity.details)
             __badges == RunBadges(running, n, badges)
             __photos == sr_get_badge_photos(activity.activityId, __badges)
         IN IF st.raised # "none" THEN st
            ELSE IF split_info.state \notin {"None", "list"}
                 THEN [st EXCEPT !.raised = split_info.state]
            ELSE IF __photos.raised # "none"
                 THEN [st EXCEPT !.files = @ \cup __photos.files, !.raised = __photos.raised]
            ELSE [results |-> Append(st.results,
                                     [activityId |-> activity.activityId,
                                      __id |-> [s \in {"smashrun"} |-> activity.activityId],
                                      __localtime |-> activity.start,
                                      distance |-> activity.distance,
                                      __tags |-> <<"smashrun">>,
                                      __splits |-> split_info,
                                      __badges |-> __badges,
                                      __photos |-> __photos.photos]),
                  files |-> st.files \cup __photos.files,
                  raised |-> "none"]

\* sr_get_runs: the activities not after stop, reversed, the running ones kept
\* and decorated
sr_get_runs(api, stop, badges) ==
    LET kept == SelectSeq(api, LAMBDA r : ~(r.start > stop))
        running == SelectSeq(Reverse(kept), LAMBDA r : r.activityType = "running")
    IN SrRunLoop(running, badges, Len(running))

CFG_START_TIME_THRESHOLD_IN_SECS == 90
CFG_DISTANCE_THRESHOLD_IN_METERS == 150

\* st_find_strava_run: the place in st_runs of the first Strava run within
\* both thresholds, from index i, or 0 (None)
RECURSIVE st_find_strava_run(_, _, _)
st_find_strava_run(sr_run, st_runs, i) ==
    IF i > Len(st_runs) THEN 0
    ELSE IF /\ Abs(st_runs[i].start_date - sr_run.__localtime) < CFG_START_TIME_THRESHOLD_IN_SECS
            /\ Abs(st_runs[i].distance - sr_run.distance * 1000) < CFG_DISTANCE_THRESHOLD_IN_METERS
         THEN i
    ELSE st_find_strava_run(sr_run, st_runs, i + 1)

\* The files st_append_strava_info downloads for the run: the route image,
\* then the photos (the first n of them), the failed downloads left out
RECURSIVE StravaPhotoFiles(_, _)
StravaPhotoFiles(sr_run, n) ==
    IF n = 0 THEN <<>>
    ELSE LET fname == log_download_url(<<"photo", sr_run.activityId, n>>)
         IN StravaPhotoFiles(sr_run, n - 1) \o (IF fname # NoFile THEN <<fname>> ELSE <<>>)

StravaRouteFile(sr_run, st_run) ==
    LET fname == log_download_url(<<"route", sr_run.activityId, 0>>)
    IN IF ~cli.no_route /\ cli.google_maps_apikey # None /\ st_run.polyline # None
          /\ fname # NoFile
       THEN <<fname>>
       ELSE <<>>

\* st_append_strava_info without the 'strava' tag
st_append_strava_info_untagged(sr_run, st_runs) ==
    LET found == st_find_strava_run(sr_run, st_runs, 1)
        st_run == st_runs[found]
    IN IF found = 0 THEN sr_run
       ELSE [sr_run EXCEPT
                !.__id = [s \in Services |-> IF s = "strava" THEN st_run.id ELSE @["smashrun"]],
                !.__photos = @ \o StravaRouteFile(sr_run, st_run)
                               \o StravaPhotoFiles(sr_run, st_run.photos)]

\* st_append_strava_info: the run as it is left
st_append_strava_info(sr_run, st_runs) ==
    LET found == st_find_strava_run(sr_run, st_runs, 1)
        st_run == st_runs[found]
    IN IF found = 0 THEN sr_run
       ELSE [sr_run EXCEPT
                !.__id = [s \in Services |-> IF s = "strava" THEN st_run.id ELSE @["smashrun"]],
                !.__tags = Append(@, "strava"),
                !.__photos = @ \o StravaRouteFile(sr_run, st_run)
                               \o StravaPhotoFiles(sr_run, st_run.photos)]

\* create_journal_entry: ['dayonerun'] + run['__tags'] + args.tags
DayoneTags(run) == <<"dayonerun">> \o run.__tags \o cli.tags

\* create_journal_entry goes on after a completion status other than 0
SinkFailedIgnored(returncode) == FALSE

\* if p.returncode != 0
SinkFailed(returncode) == returncode # 0

InitMain ==
    /\ cli \in CommandLines
    /\ remote \in {[smashrun |-> a, badges |-> g, strava |-> b, returncode |-> c,
                     fault |-> f, unreachable |-> u] :
                       a \in SmashrunAnswers, g \in BadgeAnswers, b \in StravaAnswers,
                       c \in SinkAnswers, f \in Faults, u \in MainOutages}
    /\ pc = "sr_get_runs"
    /\ idx = 0
    /\ sr_runs = <<>>
    /\ runs = <<>>
    /\ journal = <<>>
    /\ state_file = cli.start
    /\ files = {}
    /\ raised = "none"
    /\ WrappersIdle
    /\ SplitsIdle
    /\ TimeIdle

\* Where main goes with the loop at index i over n runs
LoopAt(i, n) ==
    IF i > n THEN "state_file"
    ELSE IF cli.no_strava THEN "create_journal_entry"
    ELSE "st_append_strava_info"

\* main up to sr_runs = sr_get_runs(...): the Smashrun client, the user, the
\* badges and the runs with their badge photos
SrGetRuns ==
    /\ pc = "sr_get_runs"
    /\ IF remote.fault = "smashrun"
       THEN /\ raised' = "ConnectionError"
            /\ pc' = "finally"
            /\ UNCHANGED <<sr_runs, files, idx>>
       ELSE LET badges == IF cli.no_badges THEN <<>> ELSE sr_get_badges(remote.badges)
                 st == sr_get_runs(remote.smashrun, cli.stop, badges)
            IN /\ files' = files \cup st.files
               /\ raised' = st.raised
               /\ IF st.raised # "none"
                  THEN /\ pc' = "finally"
                       /\ UNCHANGED <<sr_runs, idx>>
                  ELSE /\ sr_runs' = st.results
                       /\ idx' = 1
                       /\ pc' = IF cli.no_strava THEN LoopAt(1, Len(st.results))
                                ELSE "st_get_runs"
    /\ UNCHANGED <<cli, remote, runs, journal, state_file>>
    /\ UNCHANGED <<wrapper_vars, split_vars, time_vars>>

\* strava = strava_client(...); st_runs = st_get_runs(...)
StGetRuns ==
    /\ pc = "st_get_runs"
    /\ IF remote.fault = "strava"
       THEN /\ raised' = "ConnectionError"
            /\ pc' = "finally"
       ELSE /\ pc' = LoopAt(1, Len(sr_runs))
            /\ UNCHANGED raised
    /\ UNCHANGED <<cli, remote, idx, sr_runs, runs, journal, state_file, files>>
    /\ UNCHANGED <<wrapper_vars, split_vars, time_vars>>

\* st_append_strava_info(strava, run, st_runs, ...) in the loop of main
StAppendStravaInfo ==
    /\ pc = "st_append_strava_info"
    /\ LET run == st_append_strava_info(sr_runs[idx], remote.strava)
       IN /\ sr_runs' = [sr_runs EXCEPT ![idx] = run]
          /\ files' = files \cup Range(run.__photos)
    /\ pc' = "create_journal_entry"
    /\ UNCHANGED <<cli, remote, idx, runs, journal, state_file, raised>>
    /\ UNCHANGED <<wrapper_vars, split_vars, time_vars>>

\* create_journal_entry(args, run) in the loop of main.  gen_split_markdown
\* iterates run['__splits'], a TypeError when it is None; with --dryrun the
\* function returns before dayone2 is started.
CreateJournalEntry ==
    /\ pc = "create_journal_entry"
    /\ LET run == sr_runs[idx]
           returncode == remote.returncode[run.activityId]
       IN IF run.__splits.state = "None"
          THEN /\ raised' = "TypeError"
               /\ pc' = "finally"
               /\ UNCHANGED <<journal, idx>>
          ELSE IF cli.dryrun
          THEN /\ idx' = idx + 1
               /\ pc' = LoopAt(idx + 1, Len(sr_runs))
               /\ UNCHANGED <<journal, raised>>
          ELSE /\ journal' = Append(journal, [run |-> run.activityId,
                                               tags |-> DayoneTags(run),
                                               photos |-> run.__photos,
                                               returncode |-> returncode])
               /\ IF SinkFailed(returncode)
                  THEN /\ raised' = "RuntimeError"
                       /\ pc' = "finally"
                       /\ UNCHANGED idx
                  ELSE /\ idx' = idx + 1
                       /\ pc' = LoopAt(idx + 1, Len(sr_runs))
                       /\ UNCHANGED raised
    /\ UNCHANGED <<cli, remote, sr_runs, runs, state_file, files>>
    /\ UNCHANGED <<wrapper_vars, split_vars, time_vars>>

\* if args.state_file or args.create_state_file: the state file is opened for
\* writing under the name args.state_file (a TypeError when that is None) and
\* LastUpdateStop is set to args.stop
WriteStateFile ==
    /\ pc = "state_file"
    /\ pc' = "finally"
    /\ IF cli.state_file \/ cli.create_state_file
       THEN IF cli.state_file
            THEN /\ state_file' = cli.stop
                 /\ UNCHANGED raised
            ELSE /\ raised' = "TypeError"
                 /\ UNCHANGED state_file
       ELSE UNCHANGED <<state_file, raised>>
    /\ UNCHANGED <<cli, remote, idx, sr_runs, runs, journal, files>>
    /\ UNCHANGED <<wrapper_vars, split_vars, time_vars>>

\* The photos cleanup_runs walks through
RECURSIVE RunPhotos(_, _)
RunPhotos(rs, n) ==
    IF n = 0 THEN <<>> ELSE RunPhotos(rs, n - 1) \o rs[n].__photos

\* finally: cleanup_runs(runs); then main returns 0, or the exception goes on
Finally ==
    /\ pc = "finally"
    /\ pc' = "done"
    /\ LET st == UnlinkAll(RunPhotos(runs, Len(runs)), files, 1)
       IN /\ files' = st.files
          /\ raised' = IF st.raised # "none" THEN st.raised ELSE raised
    /\ UNCHANGED <<cli, remote, idx, sr_runs, runs, journal, state_file>>
    /\ UNCHANGED <<wrapper_vars, split_vars, time_vars>>

NextMain ==
    \/ SrGetRuns
    \/ StGetRuns
    \/ StAppendStravaInfo
    \/ CreateJournalEntry
    \/ WriteStateFile
    \/ Finally

SpecMain == InitMain /\ [][NextMain]_vars

\* Matching in both programs: the wrappers with an empty manual matching map
\* (dayonerun.py), or main of dayonerunlog.py
InitMatching == InitCleanup \/ InitMain

NextMatching ==
    \/ pc = "idle" /\ Next
    \/ pc # "idle" /\ NextMain

SpecMatching == InitMatching /\ [][NextMatching]_vars

-----------------------------------------------------------------------------
(* Properties *)

\* The entries of the manual matching map that name the activity under its
\* service and carry an id for the receiving service
ManualEntriesFor(self, service, act) ==
    {n \in 1..Len(config.matched_activities) :
        LET entry == config.matched_activities[n]
        IN /\ service \in DOMAIN entry
           /\ entry[service] = act.id
           /\ self \in DOMAIN entry}

\* The candidates of self's collection within both thresholds of the activity
WithinThresholds(self, act) ==
    {c \in Range(activities[self]) :
        /\ act.start - heap[c].start < config.max_start_time_delta_in_secs
        /\ heap[c].start - act.start < config.max_start_time_delta_in_secs
        /\ act.distance - heap[c].distance < config.max_distance_delta_in_meters
        /\ heap[c].distance - act.distance < config.max_distance_delta_in_meters}

\* C1: with no applicable manual entry, merge_service pairs an activity with a
\* candidate only if both differences are strictly below the thresholds, and
\* leaves it unmatched only if no candidate of the collection is.
C1_ProximityIsStrictlyWithinThresholds ==
    [][\A self \in Services, service \in Services :
          MergeService(self, service) =>
              \A k \in 1..Len(log') :
                  LET act == heap[log'[k].activity]
                  IN ManualEntriesFor(self, service, act) = {} =>
                        IF log'[k].level = "info"
                        THEN \E c \in WithinThresholds(self, act) :
                                 heap[c].id = log'[k].matched_id
                        ELSE WithinThresholds(self, act) = {}]_vars

\* C1 witness: under the thresholds 90 s / 150 m an activity without a manual
\* entry has been merged into one that starts 60 s apart and is 80 m shorter,
\* and one 120 s apart has been left unmatched.
C1_Witness ==
    /\ config.max_start_time_delta_in_secs = 90
    /\ config.max_distance_delta_in_meters = 150
    /\ last_merge = [self |-> "smashrun", service |-> "strava"]
    /\ raised = "none"
    /\ \E k \in 1..Len(log) :
          /\ log[k].level = "info"
          /\ ManualEntriesFor("smashrun", "strava", heap[log[k].activity]) = {}
          /\ \E c \in Range(activities["smashrun"]) :
                /\ heap[c].id = log[k].matched_id
                /\ log[k].activity \in Range(heap[c].linked_activities)
                /\ heap[log[k].activity].start - heap[c].start = 60
                /\ heap[log[k].activity].distance - heap[c].distance = 80
    /\ \E k \in 1..Len(log) :
          /\ log[k].level = "warning"
          /\ ManualEntriesFor("smashrun", "strava", heap[log[k].activity]) = {}
          /\ \E c \in Range(activities["smashrun"]) :
                heap[log[k].activity].start - heap[c].start = 120

\* C2: an activity matched by proximity is paired with the candidate that
\* starts earliest among those within both thresholds.
C2_FirstMatchIsEarliest ==
    [][\A self \in Services, service \in Services :
          MergeService(self, service) =>
              \A k \in 1..Len(log') :
                  LET act == heap[log'[k].activity]
                  IN (ManualEntriesFor(self, service, act) = {} /\ log'[k].level = "info") =>
                        \A m \in Range(activities[self]), c \in WithinThresholds(self, act) :
                            heap[m].id = log'[k].matched_id => heap[m].start <= heap[c].start]_vars

\* C3: an activity named by a manual entry that carries an id for the receiver
\* is paired with that id, whatever the proximity scan would find.
C3_ManualEntryTakesPrecedence ==
    [][\A self \in Services, service \in Services :
          MergeService(self, service) =>
              \A k \in 1..Len(log') :
                  \A n \in ManualEntriesFor(self, service, heap[log'[k].activity]) :
                      /\ log'[k].level = "info"
                      /\ log'[k].matched_id = config.matched_activities[n][self]]_vars

\* C3 witness: strava 1 has been linked to smashrun 2 as its manual entry says,
\* although smashrun 1, earlier in the collection, is within both thresholds.
C3_Witness ==
    /\ last_merge = [self |-> "smashrun", service |-> "strava"]
    /\ raised = "none"
    /\ \E k \in 1..Len(log) :
          LET act == heap[log[k].activity]
          IN /\ log[k].level = "info"
             /\ \E n \in ManualEntriesFor("smashrun", "strava", act) :
                    config.matched_activities[n]["smashrun"] = log[k].matched_id
             /\ \E c \in WithinThresholds("smashrun", act), m \in Range(activities["smashrun"]) :
                    /\ heap[c].id # log[k].matched_id
                    /\ heap[m].id = log[k].matched_id
                    /\ heap[c].start < heap[m].start
                    /\ log[k].activity \in Range(heap[m].linked_activities)
                    /\ log[k].activity \notin Range(heap[c].linked_activities)

\* Two different entries of the manual map for the activity give the receiver
\* the same id
SamePrimaryTwice(self, service, act) ==
    \E m \in ManualEntriesFor(self, service, act), n \in ManualEntriesFor(self, service, act) :
        /\ m # n
        /\ config.matched_activities[m][self] = config.matched_activities[n][self]

\* C4 as stated: match_activity raises exactly when two manual entries claim
\* the same id of the receiver for the activity.
C4_RaisesExactlyOnSamePrimaryId ==
    /\ \A self \in Services :
          \A r \in Range(activities[Other(self)]) :
              SamePrimaryTwice(self, Other(self), heap[r]) =>
                  match_activity(self, Other(self), heap[r], heap) = AssertionError
    /\ raised = "AssertionError" =>
          \E r \in Range(activities[last_merge.service]) :
              SamePrimaryTwice(last_merge.self, last_merge.service, heap[r])

\* C4 amended: match_activity raises exactly when two manual entries name the
\* activity and carry an id for the receiver, be the two ids equal or not.
C4_RaisesExactlyOnTwoEntries ==
    /\ \A self \in Services :
          \A r \in Range(activities[Other(self)]) :
              (match_activity(self, Other(self), heap[r], heap) = AssertionError)
                  <=> Cardinality(ManualEntriesFor(self, Other(self), heap[r])) >= 2
    /\ raised = "AssertionError" =>
          \E r \in Range(activities[last_merge.service]) :
              Cardinality(ManualEntriesFor(last_merge.self, last_merge.service, heap[r])) >= 2

\* C4 witness: merge_service has raised on an activity that two manual entries
\* assign to two different activities of the receiver.
C4_Witness ==
    /\ raised = "AssertionError"
    /\ \E r \in Range(activities[last_merge.service]) :
          /\ Cardinality(ManualEntriesFor(last_merge.self, last_merge.service, heap[r])) >= 2
          /\ ~SamePrimaryTwice(last_merge.self, last_merge.service, heap[r])

\* The activities held by the two collections
Stored == UNION {Range(activities[s]) : s \in Services}

\* How often r occurs in a linked_activities list
Occurrences(linked, r) == Cardinality({i \in 1..Len(linked) : linked[i] = r})

\* C5: no activity is in the linked_activities of two activities of the collections.
C5_NoDoubleMerge ==
    \A s \in DOMAIN heap :
        Cardinality({p \in Stored : s \in Range(heap[p].linked_activities)}) <= 1

\* C5 witness: merge_service has run twice; an activity within the thresholds
\* of two stored activities is linked, twice, to the first of them only.
C5_Witness ==
    \E p \in Range(activities["smashrun"]), q \in Range(activities["smashrun"]) :
        \E s \in Range(activities["strava"]) :
            /\ p # q
            /\ {p, q} \subseteq WithinThresholds("smashrun", heap[s])
            /\ heap[p].linked_activities = <<s, s>>
            /\ heap[q].linked_activities = <<>>

\* C6 as stated: after any sequence of merge_service calls no activity reaches
\* itself through linked_activities, no linked activity links back, and the
\* accumulation of the tags ends.
LinksAreAcyclic ==
    /\ \A r \in DOMAIN heap : r \notin Reaches(r, heap)
    /\ \A p \in DOMAIN heap : \A s \in Range(heap[p].linked_activities) :
          p \notin Range(heap[s].linked_activities)
    /\ \A r \in DOMAIN heap : all_tags(r, heap) # RecursionError

C6_AlwaysAcyclic == LinksAreAcyclic

\* C6 amended: the same, as long as merge_service has been called on one
\* wrapper only.
C6_AcyclicWithOneReceiver == Cardinality(receivers) <= 1 => LinksAreAcyclic

\* C6 witness: merge_service has been called on the Smashrun wrapper only, an
\* activity has two links, and its tags are accumulated from three objects.
C6_Witness ==
    /\ receivers = {"smashrun"}
    /\ \E p \in Range(activities["smashrun"]) :
          /\ Len(heap[p].linked_activities) = 2
          /\ Len(all_tags(p, heap)) = 3

\* An object's own entries of a field, each paired with the object's service
OwnEntries(r, field) ==
    [k \in 1..Len(heap[r][field]) |-> <<heap[r].service, heap[r][field][k]>>]

\* C7: the badges, photos and tags read off an activity with one or two linked
\* activities are its own entries followed by those of each linked activity,
\* once each, paired with the linked activity's service.
C7_AccumulationAfterMerge ==
    \A p \in DOMAIN heap :
        /\ \A s \in DOMAIN heap :
              (heap[p].linked_activities = <<s>> /\ heap[s].linked_activities = <<>>) =>
                  /\ all_badges(p, heap) = OwnEntries(p, "_badges") \o OwnEntries(s, "_badges")
                  /\ all_photos(p, heap) = OwnEntries(p, "_photos") \o OwnEntries(s, "_photos")
                  /\ all_tags(p, heap) = OwnEntries(p, "_tags") \o OwnEntries(s, "_tags")
        /\ \A s \in DOMAIN heap, t \in DOMAIN heap :
              (/\ heap[p].linked_activities = <<s, t>>
               /\ heap[s].linked_activities = <<>>
               /\ heap[t].linked_activities = <<>>) =>
                  /\ all_badges(p, heap) = OwnEntries(p, "_badges") \o OwnEntries(s, "_badges")
                                               \o OwnEntries(t, "_badges")
                  /\ all_photos(p, heap) = OwnEntries(p, "_photos") \o OwnEntries(s, "_photos")
                                               \o OwnEntries(t, "_photos")
                  /\ all_tags(p, heap) = OwnEntries(p, "_tags") \o OwnEntries(s, "_tags")
                                             \o OwnEntries(t, "_tags")

\* C7 witness: a Smashrun activity with a route image has one Strava activity
\* with a photo linked; its photos are the route image, then the Strava photo.
C7_Witness ==
    \E p \in Range(activities["smashrun"]), s \in Range(activities["strava"]) :
        /\ heap[p].linked_activities = <<s>>
        /\ heap[s].linked_activities = <<>>
        /\ Len(heap[p]._photos) = 1
        /\ Len(heap[s]._photos) = 1
        /\ all_photos(p, heap) = << <<"smashrun", heap[p]._photos[1]>>,
                                    <<"strava", heap[s]._photos[1]>> >>
        /\ all_tags(p, heap) = << <<"smashrun", "smashrun">>, <<"strava", "strava">> >>

\* The ids that are keys of self.activities
Keys(self) == {heap[c].id : c \in Range(activities[self])}

\* merge_service raises on the activity: two manual entries, or a manual entry
\* whose id for the receiver is no key of the receiver's collection
RaisesOn(self, service, act) ==
    \/ Cardinality(ManualEntriesFor(self, service, act)) >= 2
    \/ \E n \in ManualEntriesFor(self, service, act) :
          config.matched_activities[n][self] \notin Keys(self)

\* C8: an activity that no manual entry names and no candidate is within the
\* thresholds of is logged as unmatched and linked nowhere, nothing is raised
\* for it, and the activities after it are processed (up to one that raises).
C8_UnmatchedIsSkipped ==
    [][\A self \in Services, service \in Services :
          MergeService(self, service) =>
              \A n \in 1..Len(activities[service]) :
                  LET r == activities[service][n]
                  IN (/\ ManualEntriesFor(self, service, heap[r]) = {}
                      /\ WithinThresholds(self, heap[r]) = {}
                      /\ \A m \in 1..(n - 1) :
                            ~RaisesOn(self, service, heap[activities[service][m]])) =>
                        /\ Len(log') >= n
                        /\ log'[n] = [level |-> "warning", activity |-> r, matched_id |-> None]
                        /\ \A p \in DOMAIN heap :
                              Occurrences(heap'[p].linked_activities, r)
                                  = Occurrences(heap[p].linked_activities, r)
                        /\ \A m \in (n + 1)..Len(activities[service]) :
                              (\A j \in (n + 1)..m :
                                  ~RaisesOn(self, service, heap[activities[service][j]])) =>
                                  /\ Len(log') >= m
                                  /\ log'[m].activity = activities[service][m]
                                  /\ log'[m].level = "info" =>
                                        \E p \in Range(activities[self]) :
                                            /\ heap[p].id = log'[m].matched_id
                                            /\ Occurrences(heap'[p].linked_activities,
                                                           activities[service][m])
                                                 = Occurrences(heap[p].linked_activities,
                                                               activities[service][m]) + 1
                        /\ (\A m \in 1..Len(activities[service]) :
                                ~RaisesOn(self, service, heap[activities[service][m]])) =>
                                raised' = "none"]_vars

\* C8 witness: the first Strava activity, 120 s from the only Smashrun activity,
\* was logged as unmatched and is linked nowhere; the second one was merged.
C8_Witness ==
    /\ last_merge = [self |-> "smashrun", service |-> "strava"]
    /\ raised = "none"
    /\ Len(log) = 2
    /\ log[1].level = "warning"
    /\ log[2].level = "info"
    /\ \A p \in DOMAIN heap : log[1].activity \notin Range(heap[p].linked_activities)
    /\ \E p \in Range(activities["smashrun"]) : heap[p].linked_activities = <<log[2].activity>>

\* C9: on two downloaded collections merge_service raises only on two manual
\* entries for one activity; in every other case it ends without an exception.
C9_AbortsOnlyOnDuplicateEntries ==
    (\A s \in Services : gen[s] >= 1) =>
        /\ raised \in {"none", "AssertionError"}
        /\ raised = "AssertionError" =>
              \E r \in Range(activities[last_merge.service]) :
                  Cardinality(ManualEntriesFor(last_merge.self, last_merge.service,
                                               heap[r])) >= 2

\* C10: a second merge_service call with the same receiver and argument, on the
\* same collections, logs the same pairings as the first and raises nothing.
C10_SecondRunPairsAlike ==
    [][\A self \in Services, service \in Services :
          (MergeService(self, service) /\ last_merge = [self |-> self, service |-> service]) =>
              /\ log' = log
              /\ raised' = "none"]_vars

\* C10 witness: the same merge_service call has run twice on collections in
\* which an activity is within the thresholds of two candidates; both runs
\* paired it with the first, which now links it twice.
C10_Witness ==
    /\ last_merge = [self |-> "smashrun", service |-> "strava"]
    /\ raised = "none"
    /\ \E k \in 1..Len(log) :
          /\ log[k].level = "info"
          /\ Cardinality(WithinThresholds("smashrun", heap[log[k].activity])) = 2
          /\ \E p \in Range(activities["smashrun"]) :
                /\ heap[p].id = log[k].matched_id
                /\ Occurrences(heap[p].linked_activities, log[k].activity) = 2

\* The temporary files the collection's own activities hold in _photos
Owned(self) == UNION {Range(heap[r]._photos) : r \in Range(activities[self])}

\* C17: cleanup on a collection unlinks exactly the files of that collection's
\* own activities and, called once on each collection, never unlinks a file
\* that is already gone.
C17_CleanupDeletesOwnFilesOnce ==
    [][\A self \in Services :
          (Cleanup(self) /\ Cardinality(receivers) <= 1) =>
              /\ raised' = "none"
              /\ files' = files \ Owned(self)]_vars

\* C20: the activities of every collection are stored oldest first.
C20_StoredOldestToNewest ==
    \A s \in Services :
        \A i \in 1..Len(activities[s]), j \in 1..Len(activities[s]) :
            i < j => heap[activities[s][i]].start <= heap[activities[s][j]].start

\* The fields of a string: its parts between the ':' characters
RECURSIVE Fields(_)
Fields(str) ==
    IF \A k \in 1..Len(str) : str[k] # ":" THEN <<str>>
    ELSE LET c == CHOOSE k \in 1..Len(str) :
                      str[k] = ":" /\ \A j \in 1..(k - 1) : str[j] # ":"
         IN <<SubSeq(str, 1, c - 1)>> \o Fields(SubSeq(str, c + 1, Len(str)))

IsNumber(field) == field # <<>> /\ \A k \in 1..Len(field) : field[k] \in Range(Digits)

\* The number a field of digits reads as
RECURSIVE Value(_)
Value(field) ==
    IF field = <<>> THEN 0
    ELSE 10 * Value(SubSeq(field, 1, Len(field) - 1))
         + (CHOOSE d \in 0..9 : Digits[d + 1] = field[Len(field)])

\* The string has as many fields as the pace has units (seconds; minutes and
\* seconds; hours, minutes and seconds), all numbers, that read back as the pace
\* with minutes and seconds below 60
ReadsBackAs(str, p) ==
    LET f == Fields(str)
        n == Len(f)
    IN /\ n = IF p < SECS_PER_MIN THEN 1 ELSE IF p < SECS_PER_HOUR THEN 2 ELSE 3
       /\ \A k \in 1..n : IsNumber(f[k])
       /\ Value(f[n]) < 60
       /\ n >= 2 => Value(f[n - 1]) < 60
       /\ p = Value(f[n]) + (IF n >= 2 THEN 60 * Value(f[n - 1]) ELSE 0)
                          + (IF n = 3 THEN 3600 * Value(f[1]) ELSE 0)

\* C14 as stated: every field of the result has two digits.
C14_TwoDigitFields ==
    text # <<>> =>
        /\ ReadsBackAs(text, pace)
        /\ \A k \in 1..Len(Fields(text)) : Len(Fields(text)[k]) = 2

\* C14 amended: the minutes and seconds fields have two digits, the hours
\* field has two digits or, from 100 hours on, as many as the hours need; the
\* result is "45" for 45, "02:05" for 125 and "01:02:05" for 3725.
C14_FieldsOfAtLeastTwoDigits ==
    text # <<>> =>
        LET f == Fields(text)
        IN /\ ReadsBackAs(text, pace)
           /\ \A k \in 1..Len(f) :
                 IF k = 1 /\ Len(f) = 3 /\ Value(f[k]) >= 100
                 THEN Len(f[k]) > 2 /\ f[k][1] # "0"
                 ELSE Len(f[k]) = 2
           /\ pace = 45 => text = <<"4", "5">>
           /\ pace = 125 => text = <<"0", "2", ":", "0", "5">>
           /\ pace = 3725 => text = <<"0", "1", ":", "0", "2", ":", "0", "5">>

\* C14 witness: one hour exactly has been formatted, with its zero minutes and
\* zero seconds written out.
C14_Witness ==
    /\ pace = 3600
    /\ text = <<"0", "1", ":", "0", "0", ":", "0", "0">>

\* C11: in every list of splits produced, total_distance and total_time never
\* decrease from one record to the next.
C11_TotalsNeverDecrease ==
    splits.state = "list" =>
        \A k \in 1..(Len(splits.list) - 1) :
            /\ splits.list[k].total_distance <= splits.list[k + 1].total_distance
            /\ splits.list[k].total_time <= splits.list[k + 1].total_time

\* C11 witness: sr_get_split_info has returned the split of the first mile
\* followed by a last part whose totals are larger.
C11_Witness ==
    /\ details.path = "sr_get_split_info"
    /\ splits.state = "list"
    /\ Len(splits.list) = 2
    /\ splits.list[1].total_distance = UNITS_PER_MILE
    /\ splits.list[2].total_distance > UNITS_PER_MILE
    /\ splits.list[2].total_distance < 2 * UNITS_PER_MILE
    /\ splits.list[2].total_time > splits.list[1].total_time

\* the pace is the time over the distance, cut to whole seconds per mile
IsPace(p, time, distance) ==
    /\ distance # 0
    /\ p * distance <= time * UNITS_PER_MILE
    /\ time * UNITS_PER_MILE < (p + 1) * distance

\* C12: every record has split_pace = split_time / split_distance and
\* total_pace = total_time / total_distance, and no call ends in an exception.
C12_PacesAlwaysComputed ==
    /\ raised = "none"
    /\ splits.state = "list" =>
          \A k \in 1..Len(splits.list) :
              LET split == splits.list[k]
              IN /\ IsPace(split.split_pace, split.split_time, split.split_distance)
                 /\ IsPace(split.total_pace, split.total_time, split.total_distance)

\* C13: a recording with both channels and no sample gives the empty list.
C13_NoSamplesNoSplits ==
    (/\ details # <<>>
     /\ details.path = "sr_get_split_info"
     /\ splits.state # "pending"
     /\ KeyIndex(details.recordingKeys, "distance") # 0
     /\ KeyIndex(details.recordingKeys, "clock") # 0
     /\ details.recordingValues[KeyIndex(details.recordingKeys, "distance")] = <<>>) =>
        /\ splits = [state |-> "list", list |-> <<>>]
        /\ raised = "none"

\* C13 witness: sr_get_split_info has returned for a recording whose distance
\* and clock channels are empty.
C13_Witness ==
    /\ details # <<>>
    /\ details.path = "sr_get_split_info"
    /\ details.recordingKeys = <<"clock", "distance">>
    /\ details.recordingValues = << <<>>, <<>> >>
    /\ splits.state = "list"

\* A Strava activity is within both thresholds of the Smashrun run with the
\* given id, and Strava is consulted
StravaMatched(id) ==
    /\ ~cli.no_strava
    /\ \E i \in 1..Len(remote.strava) :
          /\ Abs(remote.strava[i].start_date - SmashrunRun(id).start) < CFG_START_TIME_THRESHOLD_IN_SECS
          /\ Abs(remote.strava[i].distance - SmashrunRun(id).distance * 1000)
               < CFG_DISTANCE_THRESHOLD_IN_METERS

C16_NoTemporaryFileLeft ==
    pc = "done" => files = {}

\* C18: an entry for which dayone2 ended with a status other than 0 is the
\* last one attempted, and main ends with the RuntimeError; with --dryrun
\* dayone2 is never started.
C18_SinkFailureEndsRun ==
    /\ \A k \in 1..Len(journal) :
          journal[k].returncode # 0 =>
              /\ k = Len(journal)
              /\ raised = "RuntimeError"
              /\ pc \in {"finally", "done"}
    /\ cli.dryrun => journal = <<>>

\* main has ended with the RuntimeError of the first of two runs, the second
\* was never attempted
C18_Witness ==
    /\ pc = "done"
    /\ raised = "RuntimeError"
    /\ Len(journal) = 1
    /\ journal[1].returncode # 0
    /\ Len(sr_runs) = 2

\* The run with the given id has an entry that dayone2 persisted
Persisted(id) ==
    \E k \in 1..Len(journal) : journal[k].run = id /\ journal[k].returncode = 0

\* C19: the state file holds the new stop time only if dayone2 persisted an
\* entry for every run of the invocation; otherwise it keeps its content.
C19_WatermarkOnlyAfterSuccess ==
    state_file # cli.start =>
        /\ state_file = cli.stop
        /\ \A i \in 1..Len(sr_runs) : Persisted(sr_runs[i].activityId)

\* C21: every activity download keeps starts before stop; one that starts at
\* stop or later is not stored.
C21_KeptBeforeStop ==
    \A s \in Services : \A r \in Range(activities[s]) : heap[r].start < args.stop

\* The type of activity_types a service's activity type stands for
AllowedName(atype) ==
    IF atype \in {"running", "Run"} THEN "run"
    ELSE IF atype = "Ride" THEN "ride"
    ELSE "unknown"

\* C22: every activity stored by download is of a type the caller allowed;
\* the records of the other types are dropped, on both services.
C22_OnlyAllowedTypes ==
    \A s \in Services : \A r \in Range(activities[s]) :
        AllowedName(heap[r].activityType) \in args.activity_types

\* The route image of the activity
RouteImage(r) == <<"route", r, 0>>

\* C26: _photos holds a route image only if routes were requested, the wrapper
\* is the primary one, and the activity has a polyline and the wrapper an API
\* key; the route image is then the first element, the badge images follow
\* it, and the other photos come last.
C26_RouteImageFirst ==
    \A s \in Services : \A r \in Range(activities[s]) :
        LET photos == heap[r]._photos
        IN /\ RouteImage(r) \in Range(photos) =>
                 /\ args.routes
                 /\ primary[s]
                 /\ heap[r].polyline # None
                 /\ config.google_apikey # None
                 /\ photos[1] = RouteImage(r)
                 /\ \A k \in 2..Len(photos) : photos[k] # RouteImage(r)
           /\ \A i \in 1..Len(photos), j \in 1..Len(photos) :
                 (photos[i][1] = "photo" /\ photos[j][1] = "badge") => j < i

\* A Strava activity of the primary wrapper holds its route image and then a
\* photo, the download of another photo having failed
C26_Witness ==
    \E r \in Range(activities["strava"]) :
        /\ primary["strava"]
        /\ heap[r]._photos = <<RouteImage(r), <<"photo", r, 2>> >>

\* sr_get_split_info has returned a list for a recording with both channels
\* and at least one sample
SplitsReturned ==
    /\ details # <<>>
    /\ details.path = "sr_get_split_info"
    /\ splits.state = "list"
    /\ KeyIndex(details.recordingKeys, "distance") # 0
    /\ KeyIndex(details.recordingKeys, "clock") # 0
    /\ details.recordingValues[KeyIndex(details.recordingKeys, "distance")] # <<>>

\* The samples of the two channels, the distances in units of length
DistanceSeries ==
    LET ds == details.recordingValues[KeyIndex(details.recordingKeys, "distance")]
    IN [i \in 1..Len(ds) |-> ds[i] * UNITS_PER_METER]

ClockSeries == details.recordingValues[KeyIndex(details.recordingKeys, "clock")]

\* The first sample beyond the k-th boundary, 0 if there is none
FirstBeyond(k) ==
    IF \E i \in 1..Len(DistanceSeries) : DistanceSeries[i] > k * split_interval
    THEN CHOOSE i \in 1..Len(DistanceSeries) :
             /\ DistanceSeries[i] > k * split_interval
             /\ \A j \in 1..(i - 1) : ~(DistanceSeries[j] > k * split_interval)
    ELSE 0

\* C24: for every boundary k * split_interval the distances pass, the k-th
\* record is a full split whose total_time is the clock of the first sample
\* beyond the boundary and whose split_time is the time since the record before.
C24_FullSplitAtFirstCrossing ==
    SplitsReturned =>
        \A k \in 1..(DistanceSeries[Len(DistanceSeries)] \div split_interval) :
            FirstBeyond(k) # 0 =>
                /\ Len(splits.list) >= k
                /\ splits.list[k].total_distance = k * split_interval
                /\ splits.list[k].split_distance = split_interval
                /\ splits.list[k].total_time = ClockSeries[FirstBeyond(k)]
                /\ splits.list[k].split_time
                      = ClockSeries[FirstBeyond(k)]
                        - (IF k = 1 THEN 0 ELSE splits.list[k - 1].total_time)

\* The number of full splits in the list returned
FullSplits ==
    Cardinality({k \in 1..Len(splits.list) :
                    /\ splits.list[k].total_distance = k * split_interval
                    /\ splits.list[k].split_distance = split_interval})

\* C25: after the full splits the list holds one more record exactly when the
\* last sample lies beyond the last full split boundary (beyond 0 if there is
\* no full split); that record carries the last sample's distance and clock
\* and what remains since the last full split.
C25_TrailingSplitIffRemainder ==
    SplitsReturned =>
        LET n == Len(DistanceSeries)
            trailing == Len(splits.list) - FullSplits
            last == splits.list[Len(splits.list)]
        IN /\ trailing \in {0, 1}
           /\ trailing = 1 <=> DistanceSeries[n] > FullSplits * split_interval
           /\ trailing = 1 =>
                 /\ last.total_distance = DistanceSeries[n]
                 /\ last.total_time = ClockSeries[n]
                 /\ last.split_distance = DistanceSeries[n] - FullSplits * split_interval
                 /\ last.split_time
                       = ClockSeries[n] - (IF FullSplits = 0 THEN 0
                                           ELSE splits.list[FullSplits].total_time)

\* C27: a merge_service call repeated on the same collections, with the same
\* receiver as every call before, appends each matched activity once more to
\* the activity it was linked to; the photos of the linked activity are then
\* accumulated as often as it is linked, and its tag likewise.
C27_RepeatedMergeDuplicates ==
    [][\A self \in Services, service \in Services :
          (/\ MergeService(self, service)
           /\ last_merge = [self |-> self, service |-> service]
           /\ receivers = {self}) =>
              \A k \in 1..Len(log') :
                  log'[k].level = "info" =>
                      LET r == log'[k].activity
                      IN \E p \in Range(activities[self]) :
                            /\ heap[p].id = log'[k].matched_id
                            /\ Occurrences(heap[p].linked_activities, r) >= 1
                            /\ Occurrences(heap'[p].linked_activities, r)
                                 = Occurrences(heap[p].linked_activities, r) + 1
                            /\ \A e \in Range(OwnEntries(r, "_photos"))
                                         \cup Range(OwnEntries(r, "_badges")) :
                                  /\ Occurrences(all_photos(p, heap') \o all_badges(p, heap'), e)
                                       = Occurrences(heap'[p].linked_activities, r)
                            /\ Occurrences(all_tags(p, heap'), <<service, service>>)
                                 = Len(heap'[p].linked_activities)]_vars

\* C27 witness: after two smashrun.merge_service(strava) calls a Smashrun
\* activity links the same Strava activity twice and accumulates its photo
\* and its tag twice.
C27_Witness ==
    /\ last_merge = [self |-> "smashrun", service |-> "strava"]
    /\ receivers = {"smashrun"}
    /\ \E p \in Range(activities["smashrun"]), s \in Range(activities["strava"]) :
          /\ heap[p].linked_activities = <<s, s>>
          /\ Len(heap[s]._photos) >= 1
          /\ Occurrences(all_photos(p, heap), <<"strava", heap[s]._photos[Len(heap[s]._photos)]>>) = 2
          /\ all_tags(p, heap) = << <<"smashrun", "smashrun">>, <<"strava", "strava">>,
                                    <<"strava", "strava">> >>

\* The temporary files the runs hold in __photos
HeldByRuns(rs) == UNION {Range(rs[i].__photos) : i \in 1..Len(rs)}

\* C23: whatever photo, badge image or route image fails to download, the
\* download and matching steps of main raise nothing, and the temporary files
\* on disk are those the runs hold in their photos.
C23_FailedDownloadNotFatal ==
    [][/\ (SrGetRuns /\ remote.fault = "none") =>
             /\ raised' = "none"
             /\ files' = HeldByRuns(sr_runs')
       /\ StAppendStravaInfo =>
             /\ raised' = "none"
             /\ files' = HeldByRuns(sr_runs')]_vars

\* C28: a run holds a badge exactly when the badge was earned on the local day
\* the run started on, whatever other runs started on that day.
C28_BadgeForEveryRunOfTheDay ==
    \A i \in 1..Len(sr_runs) : \A k \in 1..Len(remote.badges) :
        (remote.badges[k] \in Range(sr_runs[i].__badges))
            <=> (remote.badges[k].dateEarned \div SECS_PER_DAY
                    = sr_runs[i].__localtime \div SECS_PER_DAY)

\* C28 witness: two runs of the first day both hold badge 1, and each its own
\* image of it; neither holds badge 2 of the second day.
C28_Witness ==
    /\ Len(sr_runs) = 2
    /\ Len(remote.badges) = 2
    /\ \A i \in 1..2 :
          /\ sr_runs[i].__badges = <<[id |-> 1, dateEarned |-> 30]>>
          /\ sr_runs[i].__photos[1] = <<"badge", sr_runs[i].activityId, 1>>

\* The recording Smashrun holds for the run lacks the distance or the clock channel
LacksChannel(run) ==
    \E j \in 1..Len(remote.smashrun) :
        /\ remote.smashrun[j].activityId = run.activityId
        /\ \/ KeyIndex(remote.smashrun[j].details.recordingKeys, "distance") = 0
           \/ KeyIndex(remote.smashrun[j].details.recordingKeys, "clock") = 0

\* C30: a run whose recording lacks the distance or the clock channel has None
\* for its splits, and create_journal_entry makes its entry without raising.
C30_EntryWithoutSplits ==
    [][(CreateJournalEntry /\ LacksChannel(sr_runs[idx])) =>
          /\ sr_runs[idx].__splits.state = "None"
          /\ raised' # "TypeError"
          /\ ~cli.dryrun => Len(journal') = Len(journal) + 1]_vars

\* The activities of the collection that match_activity pairs with p, every
\* one judged against the collections as they were before the call
MatchedWith(self, service, p) ==
    SelectSeq(activities[service],
              LAMBDA r : match_activity(self, service, heap[r], heap) = heap[p].id)

\* The place in st_runs of the first Strava run within both thresholds of the run
FirstWithin(run, st_runs) ==
    IF \E j \in 1..Len(st_runs) :
          /\ Abs(st_runs[j].start_date - run.__localtime) < CFG_START_TIME_THRESHOLD_IN_SECS
          /\ Abs(st_runs[j].distance - run.distance * 1000) < CFG_DISTANCE_THRESHOLD_IN_METERS
    THEN CHOOSE j \in 1..Len(st_runs) :
            /\ Abs(st_runs[j].start_date - run.__localtime) < CFG_START_TIME_THRESHOLD_IN_SECS
            /\ Abs(st_runs[j].distance - run.distance * 1000) < CFG_DISTANCE_THRESHOLD_IN_METERS
            /\ \A i \in 1..(j - 1) :
                  \/ ~(Abs(st_runs[i].start_date - run.__localtime)
                          < CFG_START_TIME_THRESHOLD_IN_SECS)
                  \/ ~(Abs(st_runs[i].distance - run.distance * 1000)
                          < CFG_DISTANCE_THRESHOLD_IN_METERS)
    ELSE 0

\* C29: merge_service appends to an activity every activity of the other
\* collection that matches it, however many there are; and main attaches to a
\* run the first Strava run within the thresholds, be it attached to an
\* earlier run or not.
C29_MatchingIsNotOneToOne ==
    [][/\ pc = "idle" =>
             \A self \in Services, service \in Services :
                 (MergeService(self, service) /\ raised' = "none") =>
                     \A p \in Range(activities[self]) :
                         heap'[p].linked_activities
                             = heap[p].linked_activities \o MatchedWith(self, service, p)
       /\ StAppendStravaInfo =>
             LET found == FirstWithin(sr_runs[idx], remote.strava)
             IN found # 0 =>
                   /\ "strava" \in DOMAIN sr_runs'[idx].__id
                   /\ sr_runs'[idx].__id["strava"] = remote.strava[found].id]_vars

\* C29 witness: one strava.merge_service(smashrun) call has linked two
\* different Smashrun activities to the same Strava activity.
C29_Witness ==
    /\ pc = "idle"
    /\ last_merge = [self |-> "strava", service |-> "smashrun"]
    /\ \E p \in Range(activities["strava"]) :
          \E a \in Range(activities["smashrun"]), b \in Range(activities["smashrun"]) :
              /\ a # b
              /\ heap[p].linked_activities = <<a, b>>

====
